---------------------------- MODULE Spec2Model ----------------------------
(***************************************************************************)
(* Model of dwaveip.IntegerQuadraticModel                                  *)
(* (src/dwaveip/integer_quadratic_model.py) and of its earlier variant     *)
(* IntegerBQM (src/integer_bqm.py): integer variables are encoded into a   *)
(* binary quadratic model by binary / two's complement expansion, and      *)
(* sampled rows are decoded back into integers.                            *)
(*                                                                         *)
(* Numbers.  With an int_precision of 0 the expansion of an INT variable   *)
(* is [-2 ** -1] = [-0.5], a Python float.  Every number the underlying    *)
(* binary model holds is therefore kept in fixed point, as the integer     *)
(* Scale * n: all values that arise are multiples of 1/4 and the products  *)
(* below are exact.                                                        *)
(***************************************************************************)
EXTENDS Integers, Sequences, FiniteSets, TLC

VARIABLES
    uint_precision,   \* self._uint_precision
    int_precision,    \* self._int_precision
    vartype_map,      \* self._vartype_map : label -> kind
    bqm,              \* self._bqm : [linear, quadratic, offset]
    ret,              \* outcome of the last call (return value or raised error)
    hist,             \* history of the successful calls: the integer objective
    ncalls            \* number of calls made so far

vars == <<uint_precision, int_precision, vartype_map, bqm, ret, hist, ncalls>>

model == <<uint_precision, int_precision, vartype_map, bqm>>

-----------------------------------------------------------------------------
(* Bounds of the model *)

MaxCalls == 3
MaxPrec == 2
MaxSampleVars == 3
MaxRows == 2

Labels == {"x", "y"}
Biases == {-1, 2}
Offsets == {3}

-----------------------------------------------------------------------------
(* Values *)

BINARY == "BINARY"
UINT == "UINT"
INT == "INT"
VarType == {BINARY, UINT, INT}
None == "None"
\* a vartype argument that is no member of the enum
Bogus == "Bogus"

DefaultUintPrecision == 4
DefaultIntPrecision == 5

\* A precision is whatever the caller assigned: an int, or a value that is
\* no int (a float, a string, None), for which range() raises TypeError.
IntVal(n) == [isint |-> TRUE, val |-> n]
NonInt == [isint |-> FALSE, val |-> 0]
\* The ints tried are 0 (not positive), 1 and the largest of the model.
PrecValues == {IntVal(0), IntVal(1), IntVal(MaxPrec), NonInt}

Scale == 2 * 2
Fix(n) == Scale * n
Mul(a, b) == (a * b) \div Scale

\* 2 ** e
Pow2(e) == IF e >= 0 THEN Fix(2 ^ e) ELSE Scale \div (2 ^ (0 - e))

RECURSIVE SeqSum(_)
SeqSum(s) == IF s = <<>> THEN 0 ELSE Head(s) + SeqSum(Tail(s))

RECURSIVE SetSum(_, _)
SetSum(f, S) ==
    IF S = {} THEN 0
    ELSE LET e == CHOOSE e \in S : TRUE IN f[e] + SetSum(f, S \ {e})

-----------------------------------------------------------------------------
(* _binary_coefficients *)

CoefficientsRaise(vartype) ==
    \/ vartype \notin VarType
    \/ vartype = UINT /\ ~uint_precision.isint
    \/ vartype = INT /\ ~int_precision.isint

\* range(n) for an int n, shifted to the 1-based positions of a sequence
RangeLen(n) == IF n > 0 THEN n ELSE 0

\* a slip in the signed expansion: range(int_precision) instead of
\* range(int_precision - 1)
BinaryCoefficientsOffByOne(vartype) ==
    IF vartype = BINARY THEN <<Fix(1)>>
    ELSE IF vartype = UINT
    THEN [k \in 1..RangeLen(uint_precision.val) |-> Pow2(k - 1)]
    ELSE [k \in 1..RangeLen(int_precision.val) |-> Pow2(k - 1)]
         \o <<0 - Pow2(int_precision.val - 1)>>

BinaryCoefficients(vartype) ==
    IF vartype = BINARY THEN <<Fix(1)>>
    ELSE IF vartype = UINT
    THEN [k \in 1..RangeLen(uint_precision.val) |-> Pow2(k - 1)]
    ELSE [k \in 1..RangeLen(int_precision.val - 1) |-> Pow2(k - 1)]
         \o <<0 - Pow2(int_precision.val - 1)>>

-----------------------------------------------------------------------------
(* dimod.BinaryQuadraticModel, as the calls below use it *)

EmptyBqm == [linear |-> <<>>, quadratic |-> <<>>, offset |-> 0]

Get(f, k) == IF k \in DOMAIN f THEN f[k] ELSE 0

Put(f, k, val) == [e \in DOMAIN f \cup {k} |-> IF e = k THEN val ELSE f[e]]

BqmAddVariable(b, sv, bias) ==
    [b EXCEPT !.linear = Put(b.linear, sv, Get(b.linear, sv) + bias)]

\* quadratic biases kept on the ordered pair (su, sv) instead of the unordered
BqmAddInteractionOrdered(b, su, sv, bias) ==
    LET lin1 == Put(b.linear, su, Get(b.linear, su))
        lin2 == Put(lin1, sv, Get(lin1, sv))
    IN [b EXCEPT !.linear = lin2,
                 !.quadratic = Put(b.quadratic, <<su, sv>>,
                                   Get(b.quadratic, <<su, sv>>) + bias)]

BqmAddInteraction(b, su, sv, bias) ==
    LET lin1 == Put(b.linear, su, Get(b.linear, su))
        lin2 == Put(lin1, sv, Get(lin1, sv))
    IN [b EXCEPT !.linear = lin2,
                 !.quadratic = Put(b.quadratic, {su, sv},
                                   Get(b.quadratic, {su, sv}) + bias)]

BqmAddOffset(b, offset) == [b EXCEPT !.offset = b.offset + offset]

-----------------------------------------------------------------------------
(* History of the successful calls *)

EmptyHist == [lin |-> [l \in Labels |-> 0],
              quad |-> [p \in Labels \X Labels |-> 0],
              off |-> 0]

\* every call is counted, whether it returns or raises
Counted == ncalls' = ncalls + 1

-----------------------------------------------------------------------------
(* __init__ *)

\* params is None, or a dict that gives both precisions
Init ==
    /\ \/ /\ uint_precision = IntVal(DefaultUintPrecision)
          /\ int_precision = IntVal(DefaultIntPrecision)
       \/ /\ uint_precision \in PrecValues
          /\ int_precision \in PrecValues
    /\ vartype_map = <<>>
    /\ bqm = EmptyBqm
    /\ ret = [op |-> "init", ok |-> TRUE]
    /\ hist = EmptyHist
    /\ ncalls = 0

-----------------------------------------------------------------------------
(* uint_precision / int_precision setters *)

\* a setter without the check of the registry
SetUintPrecisionUnchecked(value) ==
    /\ ncalls < MaxCalls
    /\ uint_precision' = value
    /\ ret' = [op |-> "set_uint_precision", ok |-> TRUE, value |-> value]
    /\ UNCHANGED <<int_precision, vartype_map, bqm, hist>>
    /\ Counted

SetUintPrecision(value) ==
    /\ ncalls < MaxCalls
    /\ IF vartype_map = <<>>
       THEN /\ uint_precision' = value
            /\ ret' = [op |-> "set_uint_precision", ok |-> TRUE, value |-> value]
       ELSE /\ uint_precision' = uint_precision
            /\ ret' = [op |-> "set_uint_precision", ok |-> FALSE, value |-> value]
    /\ UNCHANGED <<int_precision, vartype_map, bqm, hist>>
    /\ Counted

SetIntPrecision(value) ==
    /\ ncalls < MaxCalls
    /\ IF vartype_map = <<>>
       THEN /\ int_precision' = value
            /\ ret' = [op |-> "set_int_precision", ok |-> TRUE, value |-> value]
       ELSE /\ int_precision' = int_precision
            /\ ret' = [op |-> "set_int_precision", ok |-> FALSE, value |-> value]
    /\ UNCHANGED <<uint_precision, vartype_map, bqm, hist>>
    /\ Counted

-----------------------------------------------------------------------------
(* add_variable *)

\* linear biases that are set instead of added
RECURSIVE AddLinearTermsOverwrite(_, _, _, _, _)
AddLinearTermsOverwrite(b, v, bias, bc, k) ==
    IF k > Len(bc) THEN b
    ELSE AddLinearTermsOverwrite(
             [b EXCEPT !.linear = Put(b.linear, <<v, k - 1>>, Mul(bias, bc[k]))],
             v, bias, bc, k + 1)

\* [self._bqm.add_variable((v, i), bias * c) for i, c in enumerate(bc)]
RECURSIVE AddLinearTerms(_, _, _, _, _)
AddLinearTerms(b, v, bias, bc, k) ==
    IF k > Len(bc) THEN b
    ELSE AddLinearTerms(BqmAddVariable(b, <<v, k - 1>>, Mul(bias, bc[k])),
                        v, bias, bc, k + 1)

\* a validation that misses the conflict with the stored kind
KindRaisesMissingOnly(v, vartype) ==
    vartype = None /\ v \notin DOMAIN vartype_map

KindRaises(v, vartype) ==
    IF vartype = None
    THEN v \notin DOMAIN vartype_map
    ELSE v \in DOMAIN vartype_map /\ vartype # vartype_map[v]

ResolvedKind(v, vartype) ==
    IF v \in DOMAIN vartype_map THEN vartype_map[v] ELSE vartype

\* an expansion of more than MaxPrec bits is outside the bounds of the model
WithinBounds(v, vartype) ==
    KindRaises(v, vartype) \/ CoefficientsRaise(ResolvedKind(v, vartype))
    \/ Len(BinaryCoefficients(ResolvedKind(v, vartype))) <= MaxPrec

AddVariable(v, bias, vartype) ==
    /\ ncalls < MaxCalls
    /\ WithinBounds(v, vartype)
    /\ UNCHANGED <<uint_precision, int_precision>>
    /\ IF KindRaises(v, vartype) \/ CoefficientsRaise(ResolvedKind(v, vartype))
       THEN /\ ret' = [op |-> "add_variable", ok |-> FALSE, v |-> v,
                       vartype |-> vartype]
            /\ UNCHANGED <<vartype_map, bqm, hist>>
       ELSE LET kind == ResolvedKind(v, vartype)
                bc == BinaryCoefficients(kind)
            IN /\ vartype_map' = Put(vartype_map, v, kind)
               /\ bqm' = AddLinearTerms(bqm, v, Fix(bias), bc, 1)
               /\ ret' = [op |-> "add_variable", ok |-> TRUE, v |-> v,
                          bias |-> bias, vartype |-> vartype,
                          out |-> [k \in 1..Len(bc) |-> <<v, k - 1>>]]
               /\ hist' = [hist EXCEPT !.lin[v] = @ + bias]
    /\ Counted

-----------------------------------------------------------------------------
(* add_interaction *)

\* product(range(n), range(m)) as a sequence, in itertools order
Product(n, m) == [k \in 1..(n * m) |-> <<(k - 1) \div m, (k - 1) % m>>]

\* a diagonal term that forgets the bias
InteractionTermUnscaled(b, u, v, bias, u_bc, v_bc, i, j) ==
    IF i = j /\ u = v
    THEN BqmAddVariable(b, <<u, i>>, Mul(u_bc[i + 1], u_bc[i + 1]))
    ELSE BqmAddInteraction(b, <<u, i>>, <<v, j>>,
                           Mul(Mul(bias, u_bc[i + 1]), v_bc[j + 1]))

InteractionTerm(b, u, v, bias, u_bc, v_bc, i, j) ==
    IF i = j /\ u = v
    THEN BqmAddVariable(b, <<u, i>>, Mul(bias, Mul(u_bc[i + 1], u_bc[i + 1])))
    ELSE BqmAddInteraction(b, <<u, i>>, <<v, j>>,
                           Mul(Mul(bias, u_bc[i + 1]), v_bc[j + 1]))

RECURSIVE AddInteractionTerms(_, _, _, _, _, _, _, _)
AddInteractionTerms(b, u, v, bias, u_bc, v_bc, pairs, k) ==
    IF k > Len(pairs) THEN b
    ELSE AddInteractionTerms(
             InteractionTerm(b, u, v, bias, u_bc, v_bc, pairs[k][1], pairs[k][2]),
             u, v, bias, u_bc, v_bc, pairs, k + 1)

\* a validation that raises only when both labels are unknown, and otherwise
\* finds nothing to expand for an unknown label
AddInteractionLenient(u, v, bias) ==
    /\ ncalls < MaxCalls
    /\ UNCHANGED <<uint_precision, int_precision, vartype_map>>
    /\ IF u \notin DOMAIN vartype_map /\ v \notin DOMAIN vartype_map
       THEN /\ ret' = [op |-> "add_interaction", ok |-> FALSE, u |-> u, v |-> v]
            /\ UNCHANGED <<bqm, hist>>
       ELSE LET u_bc == IF u \in DOMAIN vartype_map
                        THEN BinaryCoefficients(vartype_map[u]) ELSE <<>>
                v_bc == IF v \in DOMAIN vartype_map
                        THEN BinaryCoefficients(vartype_map[v]) ELSE <<>>
            IN /\ bqm' = AddInteractionTerms(bqm, u, v, Fix(bias), u_bc, v_bc,
                                             Product(Len(u_bc), Len(v_bc)), 1)
               /\ ret' = [op |-> "add_interaction", ok |-> TRUE, u |-> u,
                          v |-> v, bias |-> bias]
               /\ hist' = [hist EXCEPT !.quad[<<u, v>>] = @ + bias]
    /\ Counted

AddInteraction(u, v, bias) ==
    /\ ncalls < MaxCalls
    /\ UNCHANGED <<uint_precision, int_precision, vartype_map>>
    /\ IF u \notin DOMAIN vartype_map \/ v \notin DOMAIN vartype_map
       THEN /\ ret' = [op |-> "add_interaction", ok |-> FALSE, u |-> u, v |-> v]
            /\ UNCHANGED <<bqm, hist>>
       ELSE LET u_bc == BinaryCoefficients(vartype_map[u])
                v_bc == BinaryCoefficients(vartype_map[v])
            IN /\ bqm' = AddInteractionTerms(bqm, u, v, Fix(bias), u_bc, v_bc,
                                             Product(Len(u_bc), Len(v_bc)), 1)
               /\ ret' = [op |-> "add_interaction", ok |-> TRUE, u |-> u,
                          v |-> v, bias |-> bias]
               /\ hist' = [hist EXCEPT !.quad[<<u, v>>] = @ + bias]
    /\ Counted

-----------------------------------------------------------------------------
(* add_offset *)

AddOffset(offset) ==
    /\ ncalls < MaxCalls
    /\ bqm' = BqmAddOffset(bqm, Fix(offset))
    /\ ret' = [op |-> "add_offset", ok |-> TRUE, offset |-> offset]
    /\ hist' = [hist EXCEPT !.off = @ + offset]
    /\ UNCHANGED <<uint_precision, int_precision, vartype_map>>
    /\ Counted

-----------------------------------------------------------------------------
(* sample *)

\* The sampler is a black box: it lists the binary variables of the model in
\* an order of its own and returns rows of 0/1 values, each with the energy
\* of the row under the model and an occurrence count.
Occurrences == {1, 2}

Orders(S) ==
    {o \in [1..Cardinality(S) -> S] : \A i, j \in DOMAIN o : i # j => o[i] # o[j]}

\* energy of a 0/1 assignment a of the binary variables of b
\* (the linear biases of the variables set to 1, the quadratic biases of the
\* pairs whose two variables are set to 1, and the offset)
Energy(b, a) ==
    LET ones == {sv \in DOMAIN b.linear : a[sv] = 1}
    IN SetSum(b.linear, ones)
       + SetSum(b.quadratic, {p \in DOMAIN b.quadratic : p \subseteq ones})
       + b.offset

SamplerRow(order, a, occ) ==
    [sample |-> [i \in DOMAIN order |-> a[order[i]]],
     energy |-> Energy(bqm, a),
     num_occurrences |-> occ]

SampleSets ==
    UNION {{[variables |-> order, record |-> rows] :
               rows \in UNION {[1..n -> {SamplerRow(order, a, occ) :
                                             a \in [DOMAIN bqm.linear -> {0, 1}],
                                             occ \in Occurrences}] : n \in 1..MaxRows}} :
           order \in Orders(DOMAIN bqm.linear)}

\* float64 -> int32 ('i') conversion of new_record['sample'] = ...: truncation
ToInt(x) == IF x >= 0 THEN x \div Scale ELSE 0 - ((0 - x) \div Scale)

\* the loop over enumerate(variables): st = [index, buffer], where index is
\* original_variables (label -> column, counted from 0) and buffer is
\* reconstructed_samples (row -> column -> value, columns counted from 1)
DecodeStep(st, sampleset, i) ==
    LET var == sampleset.variables[i]
        varname == var[1]
        index == IF varname \in DOMAIN st.index THEN st.index
                 ELSE Put(st.index, varname, Cardinality(DOMAIN st.index))
        ind == index[varname]
        bc == BinaryCoefficients(vartype_map[varname])
    IN [index |-> index,
        buffer |-> [r \in DOMAIN st.buffer |->
                      [st.buffer[r] EXCEPT ![ind + 1] =
                          @ + sampleset.record[r].sample[i] * bc[var[2] + 1]]]]

RECURSIVE Decode(_, _, _)
Decode(st, sampleset, i) ==
    IF i > Len(sampleset.variables) THEN st
    ELSE Decode(DecodeStep(st, sampleset, i), sampleset, i + 1)

\* the labels of an unordered dict, here in the reverse order of their columns
KeysReversed(index) ==
    LET n == Cardinality(DOMAIN index)
    IN [c \in 1..n |-> CHOOSE l \in DOMAIN index : index[l] = n - c]

\* original_variables.keys(): the labels in the order of their columns
Keys(index) ==
    [c \in 1..Cardinality(DOMAIN index) |-> CHOOSE l \in DOMAIN index : index[l] = c - 1]

\* new_record['sample'] = reconstructed_samples: a buffer of k columns is
\* stored in a field of m columns, which numpy refuses unless k = m or k = 1
ShapeRaises(k, m) == k # m /\ k # 1

Reconstruct(sampleset) ==
    LET k == Cardinality(DOMAIN vartype_map)
        st == Decode([index |-> <<>>,
                      buffer |-> [r \in DOMAIN sampleset.record |-> [c \in 1..k |-> 0]]],
                     sampleset, 1)
        m == Cardinality(DOMAIN st.index)
    IN IF ShapeRaises(k, m)
       THEN [op |-> "sample", ok |-> FALSE, sampleset |-> sampleset]
       ELSE [op |-> "sample", ok |-> TRUE, sampleset |-> sampleset,
             variables |-> Keys(st.index),
             record |-> [r \in DOMAIN sampleset.record |->
                           [sample |-> [c \in 1..m |-> ToInt(st.buffer[r][IF k = m THEN c ELSE 1])],
                            energy |-> sampleset.record[r].energy,
                            num_occurrences |-> sampleset.record[r].num_occurrences]]]

Sample(sampleset) ==
    /\ ncalls < MaxCalls
    /\ ret' = Reconstruct(sampleset)
    /\ UNCHANGED <<uint_precision, int_precision, vartype_map, bqm, hist>>
    /\ Counted

-----------------------------------------------------------------------------
(* IntegerBQM, the variant of src/integer_bqm.py, on the same state *)

IntegerBQMDefaultUintPrecision == 15
IntegerBQMDefaultIntPrecision == 16

InitBQM ==
    /\ uint_precision = IntVal(IntegerBQMDefaultUintPrecision)
    /\ int_precision = IntVal(IntegerBQMDefaultIntPrecision)
    /\ vartype_map = <<>>
    /\ bqm = EmptyBqm
    /\ ret = [op |-> "init", ok |-> TRUE]
    /\ hist = EmptyHist
    /\ ncalls = 0

\* not isinstance(value, int) or value <= 0
NotPositiveInt(value) == ~value.isint \/ value.val <= 0

IntegerBQMSetUintPrecision(value) ==
    /\ ncalls < MaxCalls
    /\ IF vartype_map # <<>> \/ NotPositiveInt(value)
       THEN /\ uint_precision' = uint_precision
            /\ ret' = [op |-> "set_uint_precision", ok |-> FALSE, value |-> value]
       ELSE /\ uint_precision' = value
            /\ ret' = [op |-> "set_uint_precision", ok |-> TRUE, value |-> value]
    /\ UNCHANGED <<int_precision, vartype_map, bqm, hist>>
    /\ Counted

IntegerBQMSetIntPrecision(value) ==
    /\ ncalls < MaxCalls
    /\ IF vartype_map # <<>> \/ NotPositiveInt(value)
       THEN /\ int_precision' = int_precision
            /\ ret' = [op |-> "set_int_precision", ok |-> FALSE, value |-> value]
       ELSE /\ int_precision' = value
            /\ ret' = [op |-> "set_int_precision", ok |-> TRUE, value |-> value]
    /\ UNCHANGED <<uint_precision, vartype_map, bqm, hist>>
    /\ Counted

\* self._vartype_map.get(vartype, None) looks the KIND up among the labels.
\* The labels of the model are strings, no member of VarType equals one, so
\* the lookup gives None and only the else branch runs: the call raises when
\* vartype is None and otherwise stores vartype, whatever was stored before.
IntegerBQMAddVariable(v, bias, vartype) ==
    /\ ncalls < MaxCalls
    /\ vartype = None \/ CoefficientsRaise(vartype)
       \/ Len(BinaryCoefficients(vartype)) <= MaxPrec
    /\ UNCHANGED <<uint_precision, int_precision>>
    /\ IF vartype = None \/ CoefficientsRaise(vartype)
       THEN /\ ret' = [op |-> "add_variable", ok |-> FALSE, v |-> v,
                       vartype |-> vartype]
            /\ UNCHANGED <<vartype_map, bqm, hist>>
       ELSE LET bc == BinaryCoefficients(vartype)
            IN /\ vartype_map' = Put(vartype_map, v, vartype)
               /\ bqm' = AddLinearTerms(bqm, v, Fix(bias), bc, 1)
               /\ ret' = [op |-> "add_variable", ok |-> TRUE, v |-> v,
                          bias |-> bias, vartype |-> vartype,
                          out |-> [k \in 1..Len(bc) |-> <<v, k - 1>>]]
               /\ hist' = [hist EXCEPT !.lin[v] = @ + bias]
    /\ Counted

IntegerBQMInteractionTerm(b, u, v, bias, u_bc, v_bc, i, j) ==
    IF i = j /\ u = v
    THEN BqmAddVariable(b, <<u, i>>, Mul(u_bc[i + 1], u_bc[i + 1]))
    ELSE BqmAddInteraction(b, <<u, i>>, <<v, j>>,
                           Mul(Mul(bias, u_bc[i + 1]), v_bc[j + 1]))

RECURSIVE IntegerBQMAddInteractionTerms(_, _, _, _, _, _, _, _)
IntegerBQMAddInteractionTerms(b, u, v, bias, u_bc, v_bc, pairs, k) ==
    IF k > Len(pairs) THEN b
    ELSE IntegerBQMAddInteractionTerms(
             IntegerBQMInteractionTerm(b, u, v, bias, u_bc, v_bc,
                                       pairs[k][1], pairs[k][2]),
             u, v, bias, u_bc, v_bc, pairs, k + 1)

IntegerBQMAddInteraction(u, v, bias) ==
    /\ ncalls < MaxCalls
    /\ UNCHANGED <<uint_precision, int_precision, vartype_map>>
    /\ IF u \notin DOMAIN vartype_map \/ v \notin DOMAIN vartype_map
       THEN /\ ret' = [op |-> "add_interaction", ok |-> FALSE, u |-> u, v |-> v]
            /\ UNCHANGED <<bqm, hist>>
       ELSE LET u_bc == BinaryCoefficients(vartype_map[u])
                v_bc == BinaryCoefficients(vartype_map[v])
            IN /\ bqm' = IntegerBQMAddInteractionTerms(
                             bqm, u, v, Fix(bias), u_bc, v_bc,
                             Product(Len(u_bc), Len(v_bc)), 1)
               /\ ret' = [op |-> "add_interaction", ok |-> TRUE, u |-> u,
                          v |-> v, bias |-> bias]
               /\ hist' = [hist EXCEPT !.quad[<<u, v>>] = @ + bias]
    /\ Counted

NextBQM ==
    \/ \E value \in PrecValues : IntegerBQMSetUintPrecision(value)
    \/ \E value \in PrecValues : IntegerBQMSetIntPrecision(value)
    \/ \E v \in Labels, bias \in Biases, vartype \in VarType \cup {None, Bogus} :
           IntegerBQMAddVariable(v, bias, vartype)
    \/ \E u \in Labels, v \in Labels, bias \in Biases :
           IntegerBQMAddInteraction(u, v, bias)

SpecBQM == InitBQM /\ [][NextBQM]_vars

-----------------------------------------------------------------------------
(* Building a model *)

Build(B) ==
    \/ \E value \in PrecValues : SetUintPrecision(value)
    \/ \E value \in PrecValues : SetIntPrecision(value)
    \/ \E v \in Labels, bias \in B, vartype \in VarType \cup {None, Bogus} :
           AddVariable(v, bias, vartype)
    \/ \E u \in Labels, v \in Labels, bias \in B : AddInteraction(u, v, bias)
    \/ \E offset \in Offsets : AddOffset(offset)

Next == Build(Biases)

\* Building a model with unit biases and sampling it
NextSample ==
    \/ Build({1})
    \/ /\ ncalls < MaxCalls
       /\ Cardinality(DOMAIN bqm.linear) <= MaxSampleVars
       /\ \E sampleset \in SampleSets : Sample(sampleset)

SpecSample == Init /\ [][NextSample]_vars

Spec == Init /\ [][Next]_vars

-----------------------------------------------------------------------------
(* A sequence of calls on one model: add_variable, add_interaction and
   add_offset as functions of the registry and the binary model they act on *)

EmptyModel == [vartype_map |-> <<>>, bqm |-> EmptyBqm, ok |-> TRUE]

Calls ==
    {[op |-> "add_variable", v |-> v, bias |-> bias, vartype |-> vartype] :
        v \in Labels, bias \in Biases, vartype \in VarType \cup {None, Bogus}}
    \cup {[op |-> "add_interaction", u |-> u, v |-> v, bias |-> bias] :
             u \in Labels, v \in Labels, bias \in Biases}
    \cup {[op |-> "add_offset", offset |-> offset] : offset \in Offsets}

\* add_variable on the model m; a call that raises leaves m as it is
CallAddVariable(m, v, bias, vartype) ==
    LET raises == IF vartype = None
                  THEN v \notin DOMAIN m.vartype_map
                  ELSE v \in DOMAIN m.vartype_map /\ vartype # m.vartype_map[v]
        kind == IF v \in DOMAIN m.vartype_map THEN m.vartype_map[v] ELSE vartype
    IN IF raises \/ CoefficientsRaise(kind)
       THEN [m EXCEPT !.ok = FALSE]
       ELSE [vartype_map |-> Put(m.vartype_map, v, kind),
             bqm |-> AddLinearTerms(m.bqm, v, Fix(bias), BinaryCoefficients(kind), 1),
             ok |-> TRUE]

\* add_interaction on the model m
CallAddInteraction(m, u, v, bias) ==
    IF u \notin DOMAIN m.vartype_map \/ v \notin DOMAIN m.vartype_map
    THEN [m EXCEPT !.ok = FALSE]
    ELSE LET u_bc == BinaryCoefficients(m.vartype_map[u])
             v_bc == BinaryCoefficients(m.vartype_map[v])
         IN [m EXCEPT !.bqm = AddInteractionTerms(m.bqm, u, v, Fix(bias), u_bc, v_bc,
                                                  Product(Len(u_bc), Len(v_bc)), 1),
                      !.ok = TRUE]

\* add_offset on the model m
CallAddOffset(m, offset) ==
    [m EXCEPT !.bqm = BqmAddOffset(m.bqm, Fix(offset)), !.ok = TRUE]

Call(m, c) ==
    IF c.op = "add_variable" THEN CallAddVariable(m, c.v, c.bias, c.vartype)
    ELSE IF c.op = "add_interaction" THEN CallAddInteraction(m, c.u, c.v, c.bias)
    ELSE CallAddOffset(m, c.offset)

\* the calls of a sequence one after the other, up to the first that raises
RECURSIVE Run(_, _, _)
Run(m, calls, k) ==
    IF k > Len(calls) \/ ~m.ok THEN m
    ELSE Run(Call(m, calls[k]), calls, k + 1)

\* the calls made so far on the model of the state, all of which returned
Log == IF ret.op = "calls" THEN ret.calls ELSE <<>>

\* one more call on the model of the state; a call that raises ends nothing
\* and changes nothing, so only the calls that return are steps
OrderedCall(c) ==
    /\ ncalls < MaxCalls
    /\ LET r == Call([vartype_map |-> vartype_map, bqm |-> bqm, ok |-> TRUE], c)
       IN /\ r.ok
          /\ vartype_map' = r.vartype_map
          /\ bqm' = r.bqm
    /\ ret' = [op |-> "calls", ok |-> TRUE, calls |-> Append(Log, c)]
    /\ UNCHANGED <<uint_precision, int_precision, hist>>
    /\ Counted

NextOrder == \E c \in Calls : OrderedCall(c)

SpecOrder == Init /\ [][NextOrder]_vars

-----------------------------------------------------------------------------
(* C1 *)

\* value of label l under the assignment a: sum of bit(l,i) * coefficient[i]
X(l, a) ==
    IF l \notin DOMAIN vartype_map THEN 0
    ELSE LET bc == BinaryCoefficients(vartype_map[l])
         IN SetSum(bc, {k \in DOMAIN bc : a[<<l, k - 1>>] = 1})

\* sum of bias * X[label], sum of bias * X[u] * X[v] and sum of the offsets
\* (a term whose bias is 0 is 0, whatever X is)
Objective(a) ==
    SetSum([l \in Labels |->
               IF hist.lin[l] = 0 THEN 0 ELSE Mul(Fix(hist.lin[l]), X(l, a))],
           Labels)
    + SetSum([p \in Labels \X Labels |->
                 IF hist.quad[p] = 0 THEN 0
                 ELSE Mul(Mul(Fix(hist.quad[p]), X(p[1], a)), X(p[2], a))],
             Labels \X Labels)
    + Fix(hist.off)

\* C1: for every 0/1 assignment of the binary sub-variables the energy of the
\* underlying binary model equals the integer objective accumulated by the
\* successful add_variable, add_interaction and add_offset calls.
EnergyEquivalence ==
    \A a \in [DOMAIN bqm.linear -> {0, 1}] : Energy(bqm, a) = Objective(a)

EnergyEquivalenceWitness ==
    /\ ret.op = "add_interaction" /\ ret.ok /\ ret.u = ret.v
    /\ vartype_map[ret.u] = INT /\ int_precision = IntVal(2)
    /\ hist.lin[ret.u] # 0

-----------------------------------------------------------------------------
(* C2 *)

IsSetter(r) == r.op \in {"set_uint_precision", "set_int_precision"}

\* C2: once a variable is registered every assignment to uint_precision or
\* int_precision fails, whatever the value, and leaves the precisions, the
\* registry and the binary model unchanged; while the registry is empty the
\* assignment is accepted and stores the value.
PrecisionFrozenOnceRegistered ==
    [][IsSetter(ret') =>
          IF vartype_map # <<>>
          THEN ~ret'.ok /\ UNCHANGED model
          ELSE /\ ret'.ok
               /\ UNCHANGED <<vartype_map, bqm>>
               /\ ret'.op = "set_uint_precision" =>
                      uint_precision' = ret'.value /\ UNCHANGED int_precision
               /\ ret'.op = "set_int_precision" =>
                      int_precision' = ret'.value /\ UNCHANGED uint_precision]_vars

PrecisionFrozenWitness ==
    /\ ret.op = "set_uint_precision" /\ ~ret.ok
    /\ vartype_map # <<>>
    /\ ret.value = uint_precision

-----------------------------------------------------------------------------
(* C3 *)

IsPositiveInt(value) == value.isint /\ value.val > 0

\* C3: an assignment of a non-positive or non-integer value to uint_precision
\* or int_precision fails and leaves the precision held before unchanged.
InvalidPrecisionRejected ==
    [][IsSetter(ret') /\ ~IsPositiveInt(ret'.value) =>
          ~ret'.ok /\ UNCHANGED <<uint_precision, int_precision>>]_vars

-----------------------------------------------------------------------------
(* C4 *)

\* C4: add_variable on an unregistered label without a kind, or on a
\* registered label with another kind than the stored one, fails and leaves
\* the registry, the biases, the offset and the binary sub-variables as they
\* were; and no call ever changes the kind stored for a label.
KindValidationAtomic ==
    [][/\ (/\ ret'.op = "add_variable"
           /\ \/ ret'.vartype = None /\ ret'.v \notin DOMAIN vartype_map
              \/ /\ ret'.vartype # None
                 /\ ret'.v \in DOMAIN vartype_map
                 /\ ret'.vartype # vartype_map[ret'.v])
          => ~ret'.ok /\ UNCHANGED <<model, hist>>
       /\ \A l \in DOMAIN vartype_map :
              l \in DOMAIN vartype_map' /\ vartype_map'[l] = vartype_map[l]]_vars

KindValidationWitness ==
    /\ ret.op = "add_variable" /\ ~ret.ok
    /\ ret.v \in DOMAIN vartype_map
    /\ ret.vartype \in VarType
    /\ ret.vartype # vartype_map[ret.v]
    /\ bqm.quadratic # <<>>

-----------------------------------------------------------------------------
(* C5 *)

\* the precision that decides the expansion of a kind
PrecisionOf(kind) ==
    IF kind = UINT THEN uint_precision
    ELSE IF kind = INT THEN int_precision ELSE IntVal(1)

\* the expansion the claim states, for a positive precision P
StatedCoefficients(kind) ==
    LET P == PrecisionOf(kind).val
    IN IF kind = BINARY THEN <<Fix(1)>>
       ELSE IF kind = UINT THEN [k \in 1..P |-> Fix(2 ^ (k - 1))]
       ELSE [k \in 1..P |-> IF k < P THEN Fix(2 ^ (k - 1)) ELSE 0 - Fix(2 ^ (P - 1))]

SubVariables(l) == {sv \in DOMAIN bqm.linear : sv[1] = l}

PositiveLabels == {l \in DOMAIN vartype_map : IsPositiveInt(PrecisionOf(vartype_map[l]))}

\* C5: with a positive integer precision P a successful add_variable returns
\* [(label,0), ..., (label,n-1)], the binary model holds exactly these n
\* sub-variables of the label, with n = 1 and coefficients [1] for BINARY,
\* n = P and 2^0..2^(P-1) for UINT, n = P and 2^0..2^(P-2), -2^(P-1) for INT,
\* and the binary model holds as many variables as the sum of n over the labels.
ExpansionShape ==
    /\ \A l \in PositiveLabels :
          LET kind == vartype_map[l]
              n == PrecisionOf(kind).val
          IN /\ BinaryCoefficients(kind) = StatedCoefficients(kind)
             /\ SubVariables(l) = {<<l, i>> : i \in 0..(n - 1)}
             /\ (ret.op = "add_variable" /\ ret.ok /\ ret.v = l) =>
                    ret.out = [k \in 1..n |-> <<l, k - 1>>]
    /\ PositiveLabels = DOMAIN vartype_map =>
          Cardinality(DOMAIN bqm.linear) =
              SetSum([l \in DOMAIN vartype_map |-> PrecisionOf(vartype_map[l]).val],
                     DOMAIN vartype_map)

ExpansionShapeWitness ==
    /\ ret.op = "add_variable" /\ ret.ok
    /\ vartype_map[ret.v] = INT /\ int_precision = IntVal(2)
    /\ \E l \in DOMAIN vartype_map : vartype_map[l] = UINT
    /\ uint_precision = IntVal(2)

-----------------------------------------------------------------------------
(* C6 *)

\* C6: repeated add_variable calls on a label accumulate: as long as the label
\* has no self-interaction, the linear bias of each sub-variable (label,i) is
\* (b1 + ... + bk) * coefficient[i], and the label has as many binary
\* sub-variables as its expansion has coefficients.
LinearBiasAccumulates ==
    \A l \in DOMAIN vartype_map :
        LET bc == BinaryCoefficients(vartype_map[l])
        IN /\ Cardinality(SubVariables(l)) = Len(bc)
           /\ hist.quad[<<l, l>>] = 0 =>
                 \A k \in 1..Len(bc) :
                     /\ <<l, k - 1>> \in DOMAIN bqm.linear
                     /\ bqm.linear[<<l, k - 1>>] = Mul(Fix(hist.lin[l]), bc[k])

LinearBiasAccumulatesWitness ==
    /\ ret.op = "add_variable" /\ ret.ok /\ ret.vartype = None
    /\ hist.lin[ret.v] = 4
    /\ vartype_map[ret.v] = UINT /\ uint_precision = IntVal(2)
    /\ bqm.linear[<<ret.v, 1>>] = Fix(8)

-----------------------------------------------------------------------------
(* C7 *)

\* C7: add_interaction(u, v, bias) with u or v not registered fails and leaves
\* the registry, the biases, the offset and the binary sub-variables unchanged.
UnknownVariableRejected ==
    [][(/\ ret'.op = "add_interaction"
        /\ ret'.u \notin DOMAIN vartype_map \/ ret'.v \notin DOMAIN vartype_map)
       => ~ret'.ok /\ UNCHANGED <<model, hist>>]_vars

UnknownVariableWitness ==
    /\ ret.op = "add_interaction" /\ ~ret.ok
    /\ ret.u \in DOMAIN vartype_map
    /\ ret.v \notin DOMAIN vartype_map

-----------------------------------------------------------------------------
(* C8 *)

\* C8: add_interaction(u, u, bias) on a registered label adds exactly
\* bias * coefficient[i]^2 to the linear bias of each sub-variable (u,i) and
\* no quadratic term on the pair ((u,i),(u,i)); for a BINARY label no
\* quadratic bias is created or changed.
DiagonalCollapseScaled ==
    [][(ret'.op = "add_interaction" /\ ret'.ok /\ ret'.u = ret'.v) =>
          LET u == ret'.u
              bc == BinaryCoefficients(vartype_map[u])
          IN /\ \A k \in 1..Len(bc) :
                    /\ <<u, k - 1>> \in DOMAIN bqm.linear
                    /\ bqm'.linear[<<u, k - 1>>] =
                           bqm.linear[<<u, k - 1>>]
                           + Mul(Fix(ret'.bias), Mul(bc[k], bc[k]))
                    /\ {<<u, k - 1>>} \notin DOMAIN bqm'.quadratic
             /\ vartype_map[u] = BINARY => bqm'.quadratic = bqm.quadratic]_vars

-----------------------------------------------------------------------------
(* C9, C10 *)

Bits(sampleset, r, l) ==
    [i \in DOMAIN sampleset.variables |->
        IF sampleset.variables[i][1] = l
        THEN sampleset.record[r].sample[i]
             * BinaryCoefficients(vartype_map[l])[sampleset.variables[i][2] + 1]
        ELSE 0]

\* sum over the sub-variables (l,i) of bit(l,i) * coefficient[i], in row r
DotProduct(sampleset, r, l) == SeqSum(Bits(sampleset, r, l))

Column(variables, l) == CHOOSE c \in DOMAIN variables : variables[c] = l

InRange(kind, x) ==
    IF kind = BINARY THEN x \in {0, 1}
    ELSE IF kind = UINT
    THEN uint_precision.val >= 0 /\ 0 <= x /\ x <= 2 ^ uint_precision.val - 1
    ELSE /\ int_precision.val >= 1
         /\ 0 - 2 ^ (int_precision.val - 1) <= x
         /\ x <= 2 ^ (int_precision.val - 1) - 1

\* C9: in every row sample returns, the value of every registered label is
\* the sum of bit(label,i) * coefficient[i] over its sub-variables, and lies
\* in {0,1} for BINARY, [0, 2^uint_precision - 1] for UINT and
\* [-2^(int_precision-1), 2^(int_precision-1) - 1] for INT.
RoundTripDecoding ==
    (ret.op = "sample" /\ ret.ok) =>
        \A l \in DOMAIN vartype_map :
            /\ \E c \in DOMAIN ret.variables : ret.variables[c] = l
            /\ \A r \in DOMAIN ret.record :
                   LET x == ret.record[r].sample[Column(ret.variables, l)]
                   IN /\ Fix(x) = DotProduct(ret.sampleset, r, l)
                      /\ InRange(vartype_map[l], x)

\* the same, for the models whose precisions are positive integers
RoundTripDecodingPositive ==
    (IsPositiveInt(uint_precision) /\ IsPositiveInt(int_precision)) => RoundTripDecoding

FirstIndex(variables, l) ==
    CHOOSE i \in DOMAIN variables :
        /\ variables[i][1] = l
        /\ \A j \in DOMAIN variables : variables[j][1] = l => i <= j

SeenLabels(variables) == {variables[i][1] : i \in DOMAIN variables}

\* the distinct labels of the sampler's variable list, by first appearance
FirstSeen(variables) ==
    LET S == SeenLabels(variables)
    IN [c \in 1..Cardinality(S) |->
           CHOOSE l \in S :
               Cardinality({o \in S : FirstIndex(variables, o) < FirstIndex(variables, l)})
                   = c - 1]

\* C10: sample returns as many rows as the sampler, each with its energy and
\* occurrence count at the same position, and one column per distinct label,
\* ordered by the first appearance of a sub-variable of the label in the
\* sampler's variable list, holding the values reconstructed for that label.
ReconstructionShape ==
    (ret.op = "sample" /\ ret.ok) =>
        /\ Len(ret.record) = Len(ret.sampleset.record)
        /\ ret.variables = FirstSeen(ret.sampleset.variables)
        /\ \A r \in DOMAIN ret.record :
               /\ ret.record[r].energy = ret.sampleset.record[r].energy
               /\ ret.record[r].num_occurrences = ret.sampleset.record[r].num_occurrences
               /\ Len(ret.record[r].sample) = Len(ret.variables)
               /\ \A c \in DOMAIN ret.variables :
                      ret.record[r].sample[c] =
                          ToInt(DotProduct(ret.sampleset, r, ret.variables[c]))

ReconstructionShapeWitness ==
    /\ ret.op = "sample" /\ ret.ok
    /\ Len(ret.record) = 2
    /\ ret.record[1].energy # ret.record[2].energy
    /\ ret.record[1].num_occurrences # ret.record[2].num_occurrences
    /\ ret.variables = <<"y", "x">>
    /\ ret.sampleset.variables = <<<<"y", 0>>, <<"x", 1>>, <<"x", 0>>>>
    /\ ret.record[1].sample = <<1, 2>>
    /\ ret.record[2].sample = <<0, 1>>

-----------------------------------------------------------------------------
(* C11 *)

\* add_interaction(u, v, bias) written as add_interaction(v, u, bias)
Flip(c) ==
    IF c.op = "add_interaction"
    THEN [op |-> "add_interaction", u |-> c.v, v |-> c.u, bias |-> c.bias]
    ELSE c

\* the positions of the add_interaction calls among the calls made so far
Interactions == {i \in DOMAIN Log : Log[i].op = "add_interaction"}

\* the calls made so far in the order p, those at the positions F flipped
Reordered(p, F) ==
    [i \in DOMAIN Log |-> IF p[i] \in F THEN Flip(Log[p[i]]) ELSE Log[p[i]]]

\* the model of the state is what the calls made so far built
SameAsState(m) == m.vartype_map = vartype_map /\ m.bqm = bqm

\* C11: for a fixed precision configuration, every ordering of the calls made
\* so far in which every call succeeds, with the labels of any of the
\* add_interaction calls exchanged, builds the same registry, the same linear
\* bias on every sub-variable, the same quadratic bias on every unordered pair
\* and the same offset as the order in which the calls were made.
OrderIndependence ==
    \A p \in Orders(DOMAIN Log), F \in SUBSET Interactions :
        LET m == Run(EmptyModel, Reordered(p, F), 1)
        IN m.ok => SameAsState(m)

\* two kinds registered, then an interaction between the two labels, one of
\* them expanded over two bits: the two registrations can be exchanged
OrderIndependenceWitness ==
    /\ Len(Log) = 3
    /\ Log[3].op = "add_interaction" /\ Log[3].u # Log[3].v
    /\ vartype_map[Log[3].u] = INT /\ int_precision = IntVal(2)
    /\ \E p \in Orders(DOMAIN Log) :
           /\ p # [i \in DOMAIN Log |-> i]
           /\ Run(EmptyModel, Reordered(p, {}), 1).ok

\* Every successful add_variable, add_interaction and add_offset step of the
\* model built call by call is the step Call computes.
CallMatchesActions ==
    [][(ret'.ok /\ ret'.op \in {"add_variable", "add_interaction", "add_offset"}) =>
          LET c == IF ret'.op = "add_variable"
                   THEN [op |-> ret'.op, v |-> ret'.v, bias |-> ret'.bias,
                         vartype |-> ret'.vartype]
                   ELSE IF ret'.op = "add_interaction"
                   THEN [op |-> ret'.op, u |-> ret'.u, v |-> ret'.v, bias |-> ret'.bias]
                   ELSE [op |-> ret'.op, offset |-> ret'.offset]
              m == Call([vartype_map |-> vartype_map, bqm |-> bqm, ok |-> TRUE], c)
          IN m.ok /\ m.vartype_map = vartype_map' /\ m.bqm = bqm']_vars

-----------------------------------------------------------------------------
(* C12 *)

\* C12: in every state reached by construction every registered label owns at
\* least one binary sub-variable of the underlying model, and every sample
\* call returns, with as many columns as the registry has entries.
SampleShapeInvariant ==
    /\ \A l \in DOMAIN vartype_map : SubVariables(l) # {}
    /\ ret.op = "sample" =>
           /\ ret.ok
           /\ Len(ret.variables) = Cardinality(DOMAIN vartype_map)

\* the same, for the models whose precisions are positive integers
SampleShapeInvariantPositive ==
    (IsPositiveInt(uint_precision) /\ IsPositiveInt(int_precision)) =>
        SampleShapeInvariant

\* a sample call that raises: the buffer is wider than the returned field
SampleRaises == ret.op = "sample" /\ ~ret.ok

=============================================================================
